---- MODULE Spec2Model ----
(***************************************************************************)
(* Model of the Coke dwell-time dashboard: the three cleaners of           *)
(* dashboard/cleaning_utils.py and the upload processing block of          *)
(* dashboard/app.py (join, compliance, dwell time, prune, publish).        *)
(*                                                                         *)
(* Tables are sequences of rows in frame order; a row is a function from   *)
(* the source's column names to cell values.  Timestamps are whole seconds *)
(* since 2024-01-01 00:00:00, a missing timestamp is NaT and a missing     *)
(* string cell is NaN.  Durations in hours or minutes rounded to two       *)
(* decimals are carried as integer hundredths.                             *)
(***************************************************************************)
EXTENDS Integers, Sequences, FiniteSets, TLC

VARIABLES
    activity_tracker,   \* uploaded raw activity events, or NoFile
    order_view,         \* uploaded raw order appointments, or NoFile
    trailer_activity,   \* uploaded raw trailer events, or NoFile
    load_times,         \* local: result of clean_activity_tracker
    order_report,       \* local: result of clean_order_view
    trailer_report,     \* local: result of clean_trailer_activity
    joined,             \* local: merged_df with Compliance and Dwell Time, before the prune
    session_state,      \* st.session_state: the published tables
    previous,           \* st.session_state as it was when the script run began
    raw_table,          \* a cleaner on its own: the caller's frame passed to it
    create_datetime,    \* get_shift on its own: the timestamp passed in
    shift_color,        \* get_shift on its own: the value returned
    pc                  \* position of the script run

vars == <<activity_tracker, order_view, trailer_activity, load_times,
          order_report, trailer_report, joined, session_state, previous,
          raw_table, create_datetime, shift_color, pc>>

-----------------------------------------------------------------------------
(* Cell values *)

\* pandas NaT: the missing timestamp
NaT == -1

\* a timestamp cell pd.to_datetime cannot parse
Unparseable == -2

\* a timestamp cell that is not null and that pd.to_datetime turns into NaT:
\* the text "NaT", which read_csv and read_excel leave a string
NaTText == -3

\* a missing string cell (NaN / None)
NaN == "NaN"

\* a missing Dwell Time in a column of floats (NaN); a present one is
\* <<hundredths>>
NoDwell == <<>>

\* the missing Dwell Time that dwell_time returns at lines 101 and 103.  It
\* stays None only in a column that holds no float at all and so is of dtype
\* object; in a column of floats it becomes NaN.
None == <<NaT, NaT>>

\* pd.isna of a Dwell Time
isna(dwell) == dwell \in {NoDwell, None}

\* the uploader widget: empty, or holding a file read into a table
NoFile == [present |-> FALSE, readable |-> FALSE, rows |-> <<>>]
File(rows) == [present |-> TRUE, readable |-> TRUE, rows |-> rows]

\* a frame as its caller holds it: its rows, and the columns whose cells have
\* been replaced by parsed timestamps
Frame(rows) == [rows |-> rows, parsed |-> {}]
NoFrame == [rows |-> <<>>, parsed |-> {}]

\* an uploaded file that read_csv or read_excel cannot read
CorruptFile == [present |-> TRUE, readable |-> FALSE, rows |-> <<>>]

\* the outcome of a cleaner: it raised, or it returned a table
Failed == [failed |-> TRUE, rows |-> <<>>]
Returned(rows) == [failed |-> FALSE, rows |-> rows]

\* st.session_state before anything is published
EmptySession ==
    [published |-> FALSE, has_load_times |-> FALSE, merged_df |-> <<>>, load_times |-> <<>>]

\* columns holding timestamps (raw and canonical names); all others hold strings
TimestampColumns ==
    {"Create DateTime", "Appointment Date", "Appointment DateTime", "Required DateTime",
     "CHECKIN DATE TIME", "CHECKOUT DATE TIME", "Date/Time",
     "Checkin DateTime", "Checkout DateTime", "Loaded DateTime"}

\* pd.notna of the cell of row r in column c
notna(r, c) == IF c \in TimestampColumns THEN r[c] # NaT ELSE r[c] # NaN

\* pd.to_datetime of a cell it can parse: a missing cell and the text "NaT"
\* give NaT, a timestamp gives itself
to_datetime(x) == IF x = NaTText THEN NaT ELSE x

\* pd.to_datetime of column c of rows, none of whose cells is unparseable
ParseColumn(rows, c) ==
    [i \in 1..Len(rows) |-> [rows[i] EXCEPT ![c] = to_datetime(@)]]

-----------------------------------------------------------------------------
(* Bounds and input domains *)

\* most rows of a raw order export
MaxOrderRows == 2

\* most rows of a raw trailer export
MaxTrailerRows == 2

\* most rows of each raw file of a full upload run
MaxRows == 2

Day == 24 * 3600

\* 2024-01-10 08:00:00
Base == 9 * Day + 8 * 3600

\* shipment identifiers in ascending string order
ShipmentIds == <<"S1", "S2">>

ShipRank(s) == CHOOSE i \in 1..Len(ShipmentIds) : ShipmentIds[i] = s

RECURSIVE SeqsUpTo(_, _)
\* all sequences over S of length 0..n
SeqsUpTo(S, n) ==
    IF n = 0 THEN {<<>>}
    ELSE LET shorter == SeqsUpTo(S, n - 1)
         IN  shorter \cup {Append(t, r) : t \in {u \in shorter : Len(u) = n - 1}, r \in S}

-----------------------------------------------------------------------------
(* Rounding *)

RECURSIVE Pow2Mod25(_)
Pow2Mod25(p) == IF p = 0 THEN 1 ELSE (2 * Pow2Mod25(p - 1)) % 25

RECURSIVE ShiftUp(_, _)
\* least k with n * 2^k >= 200
ShiftUp(n, k) == IF n >= 200 THEN k ELSE ShiftUp(2 * n, k + 1)

RECURSIVE ShiftDown(_, _)
\* greatest e with 200 * 2^e <= n
ShiftDown(n, e) == IF n < 400 THEN e ELSE ShiftDown(n \div 2, e + 1)

\* The double nearest to n/200 (n odd, a tie between two hundredths) lies
\* above the tie iff the 53-bit significand was rounded up.
TieRoundsUp(n) ==
    LET p == IF n >= 200 THEN 49 - ShiftDown(n, 0) ELSE 49 + ShiftUp(n, 0)
    IN  ((n % 25) * Pow2Mod25(p)) % 25 > 12

\* |round(secs / 3600, 2)| * 100 for secs >= 0, as CPython rounds the double
RoundHoursAbs(secs) ==
    LET q == secs \div 36
        r == secs % 36
    IN  IF r < 18 THEN q
        ELSE IF r > 18 THEN q + 1
        ELSE IF (2 * q + 1) % 25 = 0 THEN (IF q % 2 = 0 THEN q ELSE q + 1)
        ELSE IF TieRoundsUp(2 * q + 1) THEN q + 1 ELSE q

\* round(td.total_seconds() / 3600, 2) in hundredths of an hour, with the
\* float's sign: "neg" is true for every negative float but -0.0
RoundHours(secs) ==
    LET h == RoundHoursAbs(IF secs < 0 THEN -secs ELSE secs)
    IN  [hundredths |-> IF secs < 0 THEN -h ELSE h,
         neg        |-> secs < 0 /\ h > 0,
         null       |-> FALSE]

-----------------------------------------------------------------------------
(* clean_order_view *)

OrderRow(s, o, a, c, v) ==
    ("Shipment #" :> s) @@ ("SAP Delivery # (Order#)" :> o) @@
    ("Appointment Date" :> a) @@ ("Carrier" :> c) @@ ("Appointment Type" :> v)

\* Mutant: the timestamp column sorted ascending as well
SortsBeforeAscending(a, b, key, ts) ==
    IF a[key] # b[key]
    THEN /\ a[key] # NaN
         /\ (b[key] = NaN \/ ShipRank(a[key]) < ShipRank(b[key]))
    ELSE /\ a[ts] # NaT
         /\ (b[ts] = NaT \/ a[ts] < b[ts])

\* sort_values(by=[key, ts], ascending=[True, False]): key ascending, ts
\* descending, missing values last in either column
SortsBefore(a, b, key, ts) ==
    IF a[key] # b[key]
    THEN /\ a[key] # NaN
         /\ (b[key] = NaN \/ ShipRank(a[key]) < ShipRank(b[key]))
    ELSE /\ a[ts] # NaT
         /\ (b[ts] = NaT \/ a[ts] > b[ts])

RECURSIVE InsertSorted(_, _, _, _)
\* r goes behind every row that does not sort strictly after it (stable)
InsertSorted(r, sorted, key, ts) ==
    IF sorted = <<>> THEN <<r>>
    ELSE IF SortsBefore(r, Head(sorted), key, ts) THEN <<r>> \o sorted
    ELSE <<Head(sorted)>> \o InsertSorted(r, Tail(sorted), key, ts)

RECURSIVE sort_values(_, _, _)
sort_values(rows, key, ts) ==
    IF rows = <<>> THEN <<>>
    ELSE InsertSorted(rows[Len(rows)], sort_values(SubSeq(rows, 1, Len(rows) - 1), key, ts), key, ts)

\* Mutant: no deduplication
drop_nothing(rows, key) == rows

\* Mutant: keep='last'
drop_duplicates_keep_last(rows, key) ==
    LET marked == SelectSeq(
            [i \in 1..Len(rows) |->
                [row |-> rows[i],
                 last |-> \A j \in (i + 1)..Len(rows) : rows[j][key] # rows[i][key]]],
            LAMBDA x : x.last)
    IN  [i \in 1..Len(marked) |-> marked[i].row]

\* drop_duplicates(subset=key, keep='first'); missing keys count as equal
drop_duplicates(rows, key) ==
    LET keep(i) == \A j \in 1..(i - 1) : rows[j][key] # rows[i][key]
        idx == {i \in 1..Len(rows) : keep(i)}
        RECURSIVE pick(_)
        pick(i) == IF i > Len(rows) THEN <<>>
                   ELSE (IF i \in idx THEN <<rows[i]>> ELSE <<>>) \o pick(i + 1)
    IN  pick(1)

\* dropna(): rows with a missing cell in any column go
dropna(rows) ==
    SelectSeq(rows, LAMBDA r : \A c \in DOMAIN r : notna(r, c))

\* Timedelta(minutes=15) and Timedelta(hours=24), in seconds
LiveWindow == 900
OtherWindow == 86400

\* Mutant: a LIVE order is due 15 minutes before its appointment
required_time_before(row) ==
    IF row["Visit Type"] = "LIVE"
    THEN row["Appointment DateTime"] - LiveWindow
    ELSE row["Appointment DateTime"] + OtherWindow

\* Mutant: the visit type compared after trimming and upper-casing
required_time_folded(row) ==
    IF row["Visit Type"] \in {"LIVE", "live", "LIVE "}
    THEN row["Appointment DateTime"] + LiveWindow
    ELSE row["Appointment DateTime"] + OtherWindow

required_time(row) ==
    IF row["Visit Type"] = "LIVE"
    THEN row["Appointment DateTime"] + LiveWindow
    ELSE row["Appointment DateTime"] + OtherWindow

\* days before the first of each month of 2024
MonthStarts == <<0, 31, 60, 91, 121, 152, 182, 213, 244, 274, 305, 335>>

\* .dt.month of a timestamp of 2024
MonthOf(t) == CHOOSE m \in 1..12 :
    /\ MonthStarts[m] <= t \div Day
    /\ (m = 12 \/ t \div Day < MonthStarts[m + 1])

\* .dt.strftime("%m/%d/%Y") of a timestamp of 2024, as <<month, day, year>>
ScheduledDate(t) == <<MonthOf(t), (t \div Day) - MonthStarts[MonthOf(t)] + 1, 2024>>

\* .dt.isocalendar().week of a timestamp of 2024 up to December 29
\* (2024-01-01 is a Monday and opens ISO week 1)
IsoWeek(t) == ((t \div Day) \div 7) + 1

\* columns_to_keep of clean_order_view
OrderColumnsToKeep ==
    {"Shipment #", "SAP Delivery # (Order#)", "Appointment Date", "Carrier",
     "Appointment Type"}

\* the columns of a raw table, read off its first row; a table without rows
\* is taken to have every column in all
Columns(raw, all) == IF raw = <<>> THEN all ELSE DOMAIN raw[1]

\* the raw table without column c
Without(raw, c) ==
    [i \in 1..Len(raw) |-> [k \in (DOMAIN raw[i]) \ {c} |-> raw[i][k]]]

\* the rename of line 46; a name the frame does not have is passed over
OrderRename ==
    ("Shipment #" :> "Shipment Num") @@
    ("SAP Delivery # (Order#)" :> "Order Num") @@
    ("Appointment Date" :> "Appointment DateTime") @@
    ("Carrier" :> "Carrier") @@
    ("Appointment Type" :> "Visit Type")

\* rename to the canonical names and add the derived columns
OrderRecord(r) ==
    LET renamed == [n \in {OrderRename[k] : k \in DOMAIN r} |->
                       r[CHOOSE k \in DOMAIN r : OrderRename[k] = n]]
    IN  renamed @@ ("Required DateTime" :> required_time(renamed))
                @@ ("Scheduled Date" :> ScheduledDate(renamed["Appointment DateTime"]))
                @@ ("Week" :> IsoWeek(renamed["Appointment DateTime"]))
                @@ ("Month" :> MonthOf(renamed["Appointment DateTime"]))

\* An export without rows, or one whose rows are all dropped, yields the empty
\* table: apply(axis=1) of an empty frame gives an empty column (pandas 2).
\* Mutant: the rows with a null are dropped before the deduplication
clean_order_view_dropna_first(raw) ==
    LET cols == Columns(raw, OrderColumnsToKeep)
    IN  IF {"Appointment Date", "Shipment #", "Appointment Type"} \subseteq cols
        THEN IF \E i \in 1..Len(raw) : raw[i]["Appointment Date"] = Unparseable
             THEN Failed
             ELSE LET parsed  == ParseColumn(raw, "Appointment Date")
                      kept    == dropna(parsed)
                      sorted  == sort_values(kept, "Shipment #", "Appointment Date")
                      deduped == drop_duplicates(sorted, "Shipment #")
                  IN  Returned([i \in 1..Len(deduped) |-> OrderRecord(deduped[i])])
        ELSE Failed

\* Without 'Appointment Date' or 'Shipment #' lines 37 and 38 raise KeyError;
\* without 'Appointment Type' required_time raises it for 'Visit Type' (on
\* an empty frame apply then hands back the frame and the assignment of line
\* 54 raises).  No line reads 'Carrier' or 'SAP Delivery # (Order#)'.
clean_order_view(raw) ==
    LET cols == Columns(raw, OrderColumnsToKeep)
    IN  IF {"Appointment Date", "Shipment #", "Appointment Type"} \subseteq cols
        THEN IF \E i \in 1..Len(raw) : raw[i]["Appointment Date"] = Unparseable
             THEN Failed
             ELSE LET parsed  == ParseColumn(raw, "Appointment Date")
                      sorted  == sort_values(parsed, "Shipment #", "Appointment Date")
                      deduped == drop_duplicates(sorted, "Shipment #")
                      kept    == dropna(deduped)
                  IN  Returned([i \in 1..Len(kept) |-> OrderRecord(kept[i])])
        ELSE Failed

\* What the call does to the frame it is given: line 37 assigns the parsed
\* column to the caller's frame, unless the lookup or the parse raises; line
\* 38 then rebinds the name to a sorted copy.
InPlaceOrderView(frame) ==
    IF /\ "Appointment Date" \in Columns(frame.rows, OrderColumnsToKeep)
       /\ \A i \in 1..Len(frame.rows) : frame.rows[i]["Appointment Date"] # Unparseable
    THEN [frame EXCEPT !.rows = ParseColumn(@, "Appointment Date"),
                       !.parsed = @ \cup {"Appointment Date"}]
    ELSE frame

-----------------------------------------------------------------------------
(* Shift calendar and get_shift *)

\* the dates listed in data/raw/Shift Calendar 2024.csv, as days since 2024-01-01
CalendarDays == 0..365

\* the calendar's columns "1" and "2": the crew on the day and the night slot
ShiftCalendar ==
    [d \in CalendarDays |->
        ("1" :> (IF (d \div 2) % 2 = 0 THEN "Blue" ELSE "Red")) @@
        ("2" :> (IF (d \div 2) % 2 = 0 THEN "Green" ELSE "Gold"))]

\* Mutant: the hours before 07:00 belong to the night that began the day before
get_shift_night_of_previous_date(t) ==
    LET hour  == (t % Day) \div 3600
        date  == IF hour < 7 THEN (t \div Day) - 1 ELSE t \div Day
        shift == IF 7 <= hour /\ hour < 19 THEN "1" ELSE "2"
    IN  IF date \in DOMAIN ShiftCalendar THEN ShiftCalendar[date][shift] ELSE NaN

\* Mutant: a date the calendar does not list takes the calendar's last row
get_shift_last_row(t) ==
    LET date  == t \div Day
        hour  == (t % Day) \div 3600
        shift == IF 7 <= hour /\ hour < 19 THEN "1" ELSE "2"
    IN  IF date \in DOMAIN ShiftCalendar
        THEN ShiftCalendar[date][shift]
        ELSE ShiftCalendar[365][shift]

\* get_shift of a parsed timestamp; NaN stands for the None it returns.
\* NaT.date() is NaT and NaT.hour is nan: the slot is "2" and no calendar
\* row has the date NaT.
get_shift(t) ==
    IF t = NaT
    THEN NaN
    ELSE LET date  == t \div Day
             hour  == (t % Day) \div 3600
             shift == IF 7 <= hour /\ hour < 19 THEN "1" ELSE "2"
         IN  IF date \in DOMAIN ShiftCalendar THEN ShiftCalendar[date][shift] ELSE NaN

-----------------------------------------------------------------------------
(* clean_trailer_activity *)

TrailerRow(s, act, ci, co, dt) ==
    ("SHIPMENT_ID" :> s) @@ ("ACTIVITY TYPE " :> act) @@
    ("CHECKIN DATE TIME" :> ci) @@ ("CHECKOUT DATE TIME" :> co) @@ ("Date/Time" :> dt)

\* Mutant: the activity type compared after trimming and upper-casing
ClosedFolded(rows) ==
    SelectSeq(rows, LAMBDA r : r["ACTIVITY TYPE "] \in {"CLOSED", "closed", "CLOSED "})

\* trailer_report[trailer_report['ACTIVITY TYPE '] == 'CLOSED']
ClosedOnly(rows) == SelectSeq(rows, LAMBDA r : r["ACTIVITY TYPE "] = "CLOSED")

\* drop(columns=columns.difference(columns_to_keep))
TrailerColumnsToKeep == {"CHECKIN DATE TIME", "CHECKOUT DATE TIME", "Date/Time", "SHIPMENT_ID"}

Project(rows, cols) == [i \in 1..Len(rows) |-> [c \in cols |-> rows[i][c]]]

\* Mutant: the Shift of the loaded time
TrailerRecord_shift_of_loaded(r) ==
    ("Shipment Num" :> r["SHIPMENT_ID"]) @@
    ("Checkin DateTime" :> r["CHECKIN DATE TIME"]) @@
    ("Checkout DateTime" :> r["CHECKOUT DATE TIME"]) @@
    ("Loaded DateTime" :> r["Date/Time"]) @@
    ("Shift" :> get_shift(r["Date/Time"]))

\* rename to the canonical names and add the Shift of the checkin
TrailerRecord(r) ==
    ("Shipment Num" :> r["SHIPMENT_ID"]) @@
    ("Checkin DateTime" :> r["CHECKIN DATE TIME"]) @@
    ("Checkout DateTime" :> r["CHECKOUT DATE TIME"]) @@
    ("Loaded DateTime" :> r["Date/Time"]) @@
    ("Shift" :> get_shift(r["CHECKIN DATE TIME"]))

\* the columns clean_trailer_activity reads: each is looked up by name
\* (lines 64, 71, 72, 77, 78), so that a frame without it raises KeyError
TrailerColumnsRead == TrailerColumnsToKeep \cup {"ACTIVITY TYPE "}

\* The rows with a null go (line 69) before any cell is parsed: a cell that
\* is not null and parses to NaT stays.  Date/Time is parsed for every kept
\* row (line 71), the checkin and checkout only for the rows the
\* deduplication retains (lines 77 and 78).
clean_trailer_activity(raw) ==
    IF TrailerColumnsRead \subseteq Columns(raw, TrailerColumnsRead)
    THEN LET kept == dropna(Project(ClosedOnly(raw), TrailerColumnsToKeep))
         IN  IF \E i \in 1..Len(kept) : kept[i]["Date/Time"] = Unparseable
             THEN Failed
             ELSE LET sorted  == sort_values(ParseColumn(kept, "Date/Time"),
                                             "SHIPMENT_ID", "Date/Time")
                      deduped == drop_duplicates(sorted, "SHIPMENT_ID")
                  IN  IF \E i \in 1..Len(deduped) :
                             \/ deduped[i]["CHECKIN DATE TIME"] = Unparseable
                             \/ deduped[i]["CHECKOUT DATE TIME"] = Unparseable
                      THEN Failed
                      ELSE LET parsed == ParseColumn(
                                             ParseColumn(deduped, "CHECKIN DATE TIME"),
                                             "CHECKOUT DATE TIME")
                           IN  Returned([i \in 1..Len(parsed) |-> TrailerRecord(parsed[i])])
    ELSE Failed

\* What the call does to the frame it is given: nothing, line 64 rebinds the
\* name to the filtered copy before any assignment.
InPlaceTrailerActivity(frame) == frame

-----------------------------------------------------------------------------
(* clean_activity_tracker *)

\* a raw activity event; line 5 renames 'Order #' to 'Order Num'
ActivityRow(t, o) == ("Create DateTime" :> t) @@ ("Order #" :> o)

\* order identifiers in ascending string order
OrderNums == <<"", "0", "021", "049", "102">>

\* the characters of the strings the model uses
Chars(x) ==
    CASE x = ""    -> <<>>
      [] x = "0"   -> <<"0">>
      [] x = "02"  -> <<"0", "2">>
      [] x = "04"  -> <<"0", "4">>
      [] x = "021" -> <<"0", "2", "1">>
      [] x = "049" -> <<"0", "4", "9">>
      [] x = "102" -> <<"1", "0", "2">>

\* str.startswith
startswith(x, prefix) ==
    /\ Len(Chars(prefix)) <= Len(Chars(x))
    /\ SubSeq(Chars(x), 1, Len(Chars(prefix))) = Chars(prefix)

\* Mutant: the prefix is looked for anywhere in the identifier
OrderType_contains(x) ==
    IF \E i \in 1..Len(Chars(x)) - 1 : SubSeq(Chars(x), i, i + 1) = Chars("02")
    THEN "Shuttle"
    ELSE IF \E i \in 1..Len(Chars(x)) - 1 : SubSeq(Chars(x), i, i + 1) = Chars("04")
    THEN "Customer Load"
    ELSE "Unknown"

OrderType(x) ==
    IF startswith(x, "02") THEN "Shuttle"
    ELSE IF startswith(x, "04") THEN "Customer Load"
    ELSE "Unknown"

\* round(seconds / 60, 2) in hundredths of a minute, seconds >= 0
\* (5 * seconds / 3 is never halfway between two integers)
RoundMinutes(secs) == (10 * secs + 3) \div 6

SetMax(S) == CHOOSE x \in S : \A y \in S : y <= x
SetMin(S) == CHOOSE x \in S : \A y \in S : x <= y

\* the load time of an order none of whose events has a Create DateTime:
\* max() and min() are NaT, NaT.total_seconds() is nan, round(nan, 2) is nan
NoLoadTime == <<>>

\* Mutant: the Shift of the chronologically earliest event of the order
LoadRecord_earliest(rows, o) ==
    LET group  == SelectSeq(rows, LAMBDA r : r["Order #"] = o)
        times  == {group[i]["Create DateTime"] : i \in 1..Len(group)} \ {NaT}
    IN  ("Order Num" :> o) @@
        ("Load Time (minutes)" :>
            IF times = {} THEN NoLoadTime
            ELSE <<RoundMinutes(SetMax(times) - SetMin(times))>>) @@
        ("Shift" :> IF times = {} THEN NaN ELSE get_shift(SetMin(times))) @@
        ("Order Type" :> OrderType(o))

\* one Load Record: the aggregate of the rows of one Order Num; max() and
\* min() skip the missing timestamps
LoadRecord(rows, o) ==
    LET group  == SelectSeq(rows, LAMBDA r : r["Order #"] = o)
        times  == {group[i]["Create DateTime"] : i \in 1..Len(group)} \ {NaT}
        shifts == SelectSeq([i \in 1..Len(group) |-> get_shift(group[i]["Create DateTime"])],
                            LAMBDA sh : sh # NaN)
    IN  ("Order Num" :> o) @@
        ("Load Time (minutes)" :>
            IF times = {} THEN NoLoadTime
            ELSE <<RoundMinutes(SetMax(times) - SetMin(times))>>) @@
        \* GroupBy 'first': the first non-missing value in frame order
        ("Shift" :> IF shifts = <<>> THEN NaN ELSE Head(shifts)) @@
        ("Order Type" :> OrderType(o))

\* Mutant: one record per activity event, without grouping
clean_activity_tracker_per_event(raw) ==
    IF \E i \in 1..Len(raw) :
           raw[i]["Create DateTime"] = Unparseable \/ raw[i]["Order #"] = NaN
    THEN Failed
    ELSE LET parsed == ParseColumn(raw, "Create DateTime")
         IN  Returned([i \in 1..Len(parsed) |->
                          LoadRecord(<<parsed[i]>>, parsed[i]["Order #"])])

\* columns_to_keep of clean_activity_tracker, under their raw names
ActivityColumnsToKeep == {"Create DateTime", "Order #"}

\* A missing Create DateTime passes: to_datetime gives NaT, and get_shift of
\* NaT is None.
\* Mutant: events without order identifier are left out
clean_activity_tracker_dropna(raw) ==
    IF ~(ActivityColumnsToKeep \subseteq Columns(raw, ActivityColumnsToKeep))
    THEN Failed
    ELSE IF \E i \in 1..Len(raw) : raw[i]["Create DateTime"] = Unparseable
    THEN Failed
    ELSE LET kept    == SelectSeq(ParseColumn(raw, "Create DateTime"),
                                  LAMBDA r : r["Order #"] # NaN)
             present == {kept[i]["Order #"] : i \in 1..Len(kept)}
             keys    == SelectSeq(OrderNums, LAMBDA o : o \in present)
         IN  Returned([i \in 1..Len(keys) |-> LoadRecord(kept, keys[i])])

clean_activity_tracker(raw) ==
    IF ~(ActivityColumnsToKeep \subseteq Columns(raw, ActivityColumnsToKeep))
    THEN Failed         \* KeyError at line 10 or line 12
    ELSE IF \E i \in 1..Len(raw) : raw[i]["Create DateTime"] = Unparseable
    THEN Failed         \* pd.to_datetime raises
    ELSE IF \E i \in 1..Len(raw) : raw[i]["Order #"] = NaN
    THEN Failed         \* a missing Order Num has no startswith
    ELSE LET parsed  == ParseColumn(raw, "Create DateTime")     \* line 10
             present == {parsed[i]["Order #"] : i \in 1..Len(parsed)}
             keys    == SelectSeq(OrderNums, LAMBDA o : o \in present)
         IN  Returned([i \in 1..Len(keys) |-> LoadRecord(parsed, keys[i])])

\* the rename of line 5 (the model has no column 'ï»¿Create DateTime')
ActivityRename(k) == IF k = "Order #" THEN "Order Num" ELSE k

\* What the call does to the frame it is given: line 5 renames its columns
\* in place; line 8 then rebinds the name to a copy.
InPlaceActivityTracker(frame) ==
    [frame EXCEPT !.rows =
        [i \in 1..Len(@) |->
            [n \in {ActivityRename(k) : k \in DOMAIN @[i]} |->
                @[i][CHOOSE k \in DOMAIN @[i] : ActivityRename(k) = n]]]]

-----------------------------------------------------------------------------
(* app.py: join, compliance, dwell time, prune *)

\* the joined row of an order record with a trailer record
JoinedRow(o, t) ==
    ("Shipment Num" :> o["Shipment Num"]) @@
    ("Order Num" :> o["Order Num"]) @@
    ("Appointment DateTime" :> o["Appointment DateTime"]) @@
    ("Required DateTime" :> o["Required DateTime"]) @@
    ("Checkin DateTime" :> t["Checkin DateTime"]) @@
    ("Checkout DateTime" :> t["Checkout DateTime"]) @@
    ("Carrier" :> o["Carrier"]) @@
    ("Visit Type" :> o["Visit Type"]) @@
    ("Loaded DateTime" :> t["Loaded DateTime"]) @@
    ("Shift" :> t["Shift"]) @@
    ("Scheduled Date" :> o["Scheduled Date"]) @@
    ("Week" :> o["Week"]) @@
    ("Month" :> o["Month"])

\* the trailer side of an order without a match: all NULL
NoTrailer ==
    ("Checkin DateTime" :> NaT) @@ ("Checkout DateTime" :> NaT) @@
    ("Loaded DateTime" :> NaT) @@ ("Shift" :> NaN)

RECURSIVE InnerJoin(_, _)
\* Mutant: an inner join, without rows for unmatched orders
InnerJoin(orders, trailers) ==
    IF orders = <<>> THEN <<>>
    ELSE LET o       == Head(orders)
             matches == SelectSeq(trailers, LAMBDA t : t["Shipment Num"] = o["Shipment Num"])
         IN  [i \in 1..Len(matches) |-> JoinedRow(o, matches[i])]
             \o InnerJoin(Tail(orders), trailers)

\* order o has a Trailer Record of its shipment
HasMatch(o, trailers) ==
    \E k \in 1..Len(trailers) : trailers[k]["Shipment Num"] = o["Shipment Num"]

RECURSIVE MatchedRows(_, _)
\* the rows of the join for the orders with a match, in order_report order
MatchedRows(orders, trailers) ==
    IF orders = <<>> THEN <<>>
    ELSE LET o       == Head(orders)
             matches == SelectSeq(trailers, LAMBDA t : t["Shipment Num"] = o["Shipment Num"])
         IN  [i \in 1..Len(matches) |-> JoinedRow(o, matches[i])]
             \o MatchedRows(Tail(orders), trailers)

\* the rows of the join for the orders without a match, padded with NULL
UnmatchedRows(orders, trailers) ==
    LET lone == SelectSeq(orders, LAMBDA o : ~HasMatch(o, trailers))
    IN  [i \in 1..Len(lone) |-> JoinedRow(lone[i], NoTrailer)]

\* order_report LEFT JOIN trailer_report ON "Shipment Num" as the hash join
\* gives it for tables of one chunk: the matched rows, then the unmatched
LeftJoin(orders, trailers) ==
    MatchedRows(orders, trailers) \o UnmatchedRows(orders, trailers)

RECURSIVE Merges(_, _)
\* the sequences that interleave a and b, each kept in its own order
Merges(a, b) ==
    IF a = <<>> THEN {b}
    ELSE IF b = <<>> THEN {a}
    ELSE {<<Head(a)>> \o m : m \in Merges(Tail(a), b)} \cup
         {<<Head(b)>> \o m : m \in Merges(a, Tail(b))}

\* The SELECT has no ORDER BY: the join emits, chunk by chunk, the matched
\* rows and then the unmatched ones, and the query does not fix the chunks.
\* The results are the interleavings of the matched and the unmatched rows.
LeftJoinResults(orders, trailers) ==
    LET rows == LeftJoin(orders, trailers)
    IN  Merges(SelectSeq(rows, LAMBDA r : HasMatch(r, trailers)),
               SelectSeq(rows, LAMBDA r : ~HasMatch(r, trailers)))

\* the reference time of a joined row: the appointment if On Time, the checkin if Late
Reference(r) ==
    IF r["Compliance"] = "On Time" THEN r["Appointment DateTime"] ELSE r["Checkin DateTime"]

\* Mutant: a checkin exactly at the required time counted as late
compliance_strict(row) ==
    IF notna(row, "Checkin DateTime") /\ row["Required DateTime"] > row["Checkin DateTime"]
    THEN "On Time"
    ELSE "Late"

compliance(row) ==
    IF notna(row, "Checkin DateTime") /\ row["Required DateTime"] >= row["Checkin DateTime"]
    THEN "On Time"
    ELSE "Late"

\* Mutant: the dwell time always counted from the checkin
dwell_time_from_checkin(row) ==
    IF notna(row, "Loaded DateTime") /\ notna(row, "Checkin DateTime")
    THEN LET computed == RoundHours(row["Loaded DateTime"] - row["Checkin DateTime"])
         IN  IF computed.neg THEN NoDwell ELSE <<computed.hundredths>>
    ELSE IF notna(row, "Loaded DateTime") THEN NoDwell ELSE None

\* Mutant: without the test that turns a negative dwell time into a missing one
dwell_time_signed(row) ==
    IF notna(row, "Loaded DateTime") /\ notna(row, "Checkin DateTime")
    THEN <<RoundHours(row["Loaded DateTime"] - Reference(row)).hundredths>>
    ELSE IF notna(row, "Loaded DateTime") THEN NoDwell ELSE None

\* The row carries its Compliance.  Without loaded time the result is None
\* (line 103; so it is for a Compliance other than the two, line 101).  The
\* sign test follows the rounding, so a difference that rounds to -0.0 passes
\* it and stays a number, here 0; a negative number becomes np.nan (106), and
\* the difference with a missing checkin is nan from the start.
dwell_time(row) ==
    LET loaded_datetime  == row["Loaded DateTime"]
        checkin_datetime == row["Checkin DateTime"]
        appt_datetime    == row["Appointment DateTime"]
        comp             == row["Compliance"]
        nan              == [hundredths |-> 0, neg |-> FALSE, null |-> TRUE]
    IN  IF notna(row, "Loaded DateTime") /\ comp \in {"On Time", "Late"}
        THEN LET computed ==
                     IF comp = "On Time"
                     THEN RoundHours(loaded_datetime - appt_datetime)
                     ELSE IF notna(row, "Checkin DateTime")
                     THEN RoundHours(loaded_datetime - checkin_datetime)
                     ELSE nan
             IN  IF computed.null \/ computed.neg THEN NoDwell
                 ELSE <<computed.hundredths>>
        ELSE None

WithCompliance(rows) ==
    [i \in 1..Len(rows) |-> rows[i] @@ ("Compliance" :> compliance(rows[i]))]

\* Line 110: apply gathers the results of dwell_time in a column.  Results
\* that are all None make a column of dtype object, whose cells stay None;
\* with a number or np.nan among them the column is of floats and each None
\* in it becomes NaN.
WithDwellTime(rows) ==
    LET results == [i \in 1..Len(rows) |-> dwell_time(rows[i])]
        object  == \A i \in 1..Len(rows) : results[i] = None
    IN  [i \in 1..Len(rows) |->
            rows[i] @@ ("Dwell Time (Hours)" :>
                            IF results[i] = None /\ ~object THEN NoDwell
                            ELSE results[i])]

\* Mutant: without the final dropna
PruneNothing(rows) == rows

\* merged_df.dropna(subset='Checkin DateTime')
PruneNoCheckin(rows) == SelectSeq(rows, LAMBDA r : notna(r, "Checkin DateTime"))

-----------------------------------------------------------------------------
(* The script run of app.py, lines 42-140 *)

\* Compliance and Dwell Time of the joined rows: lines 81 to 110
Derived(rows) == WithDwellTime(WithCompliance(rows))

\* the derivation of lines 61-110: join, Compliance, Dwell Time
Derive(orders, trailers) == Derived(LeftJoin(orders, trailers))

\* the columns of order_report the SELECT names
OrderColumnsSelected ==
    {"Shipment Num", "Order Num", "Appointment DateTime", "Required DateTime",
     "Carrier", "Visit Type", "Scheduled Date", "Week", "Month"}

\* the columns of the frame clean_order_view returns for the raw table raw,
\* with or without rows: those of columns_to_keep the raw table has, renamed
\* (lines 41 to 46), and the four derived ones (lines 54 to 58)
OrderReportColumns(raw) ==
    {OrderRename[k] : k \in Columns(raw, OrderColumnsToKeep) \cap OrderColumnsToKeep}
    \cup {"Required DateTime", "Scheduled Date", "Week", "Month"}

\* the SELECT raises when order_report, cleaned from the raw table raw, lacks
\* a column it names, whatever the number of its rows
JoinFails(raw) == ~(OrderColumnsSelected \subseteq OrderReportColumns(raw))

\* compliance and dwell time over the inner join of the two tables
Derive_inner(orders, trailers) ==
    WithDwellTime(WithCompliance(InnerJoin(orders, trailers)))

\* The upload block up to its last statement before the session is written:
\* lines 42 to 133 (and 137 to 140).  An exception leaves the locals not yet
\* assigned as they were; the session is not touched.
ProcessUploads ==
    /\ pc = "rerun"
    /\ IF activity_tracker.present /\ order_view.present /\ trailer_activity.present
       THEN IF activity_tracker.readable /\ order_view.readable /\ trailer_activity.readable
            THEN LET lt  == clean_activity_tracker(activity_tracker.rows)
                     ord == clean_order_view(order_view.rows)
                     trl == clean_trailer_activity(trailer_activity.rows)
                 IN  /\ load_times' = lt
                     /\ order_report' = IF lt.failed THEN order_report ELSE ord
                     /\ trailer_report' = IF lt.failed \/ ord.failed THEN trailer_report ELSE trl
                     /\ IF lt.failed \/ ord.failed \/ trl.failed \/ JoinFails(order_view.rows)
                        THEN /\ pc' = "error"
                             /\ UNCHANGED joined
                        ELSE \E rows \in LeftJoinResults(ord.rows, trl.rows) :
                             /\ pc' = "processed"
                             /\ joined' = Derived(rows)
            ELSE \* read_uploaded_file raises
                 /\ pc' = "error"
                 /\ UNCHANGED <<load_times, order_report, trailer_report, joined>>
       ELSE /\ pc' = "warning"
            /\ UNCHANGED <<load_times, order_report, trailer_report, joined>>
    /\ UNCHANGED <<activity_tracker, order_view, trailer_activity, session_state,
                   previous, raw_table, create_datetime, shift_color>>

\* Line 134: the pruned table of lines 130 and 131 is stored in the session.
PublishMergedDf ==
    /\ pc = "processed"
    /\ session_state' = [session_state EXCEPT !.published = TRUE,
                                              !.merged_df = PruneNoCheckin(joined)]
    /\ pc' = "merged_df_published"
    /\ UNCHANGED <<activity_tracker, order_view, trailer_activity, load_times,
                   order_report, trailer_report, joined,
                   previous, raw_table, create_datetime, shift_color>>

\* Line 135: the load-time table is stored in the session.
PublishLoadTimes ==
    /\ pc = "merged_df_published"
    /\ session_state' = [session_state EXCEPT !.has_load_times = TRUE,
                                              !.load_times = load_times.rows]
    /\ pc' = "success"
    /\ UNCHANGED <<activity_tracker, order_view, trailer_activity, load_times,
                   order_report, trailer_report, joined,
                   previous, raw_table, create_datetime, shift_color>>

-----------------------------------------------------------------------------
(* The rest of the script run: the dashboard of app.py, lines 142-878 *)

\* pd.cut of lines 766 to 770 over the bins (-inf, 0], (0, 1], (1, 2], (2, 3],
\* (3, inf) and their labels; in a column of floats a missing dwell time has
\* no category
DwellTimeCategory(dwell) ==
    IF dwell = NoDwell THEN NaN
    ELSE IF dwell[1] <= 0 THEN "<2"
    ELSE IF dwell[1] <= 100 THEN "2-3"
    ELSE IF dwell[1] <= 200 THEN "3-4"
    ELSE IF dwell[1] <= 300 THEN "4-5"
    ELSE "5+"

\* pd.cut searches the bins for the cells; a cell that is None, in a column
\* of dtype object, cannot be compared with a bin edge: TypeError
CutRaises(rows) ==
    \E i \in 1..Len(rows) : rows[i]["Dwell Time (Hours)"] = None

\* the assignment of line 766: the column 'Dwell Time Category' set on rows,
\* unless pd.cut raises, which leaves the rows as they are
WithDwellTimeCategory(rows) ==
    IF CutRaises(rows) THEN rows
    ELSE [i \in 1..Len(rows) |->
             [k \in DOMAIN rows[i] \cup {"Dwell Time Category"} |->
                 IF k = "Dwell Time Category"
                 THEN DwellTimeCategory(rows[i]["Dwell Time (Hours)"])
                 ELSE rows[i][k]]]

\* line 720 selects the columns 'On Time' and 'Late' of the monthly trend and
\* raises unless the table has rows of both
HasBothCompliances(rows) ==
    /\ \E i \in 1..Len(rows) : rows[i]["Compliance"] = "On Time"
    /\ \E i \in 1..Len(rows) : rows[i]["Compliance"] = "Late"

\* the options of the YTD shift filter (lines 182 and 702); the widget keeps
\* 'All', its default, until a run has drawn it for the user to change
ShiftOptions ==
    {"All"} \cup
    (IF previous.published
     THEN {session_state.merged_df[i]["Shift"] : i \in 1..Len(session_state.merged_df)}
     ELSE {})

\* The same script run goes on after the upload block, whether that block
\* published, failed or warned (a step of its own, since the user can stop
\* the run before it): it reloads the published tables (142-144;
\* line 144 raises KeyError when the session has no load_times, and the run
\* ends there) and draws the dashboard.  The daily, weekly and monthly sections work on
\* filtered copies (the date, week and month inputs are taken at values whose
\* sections pass).  With the YTD shift filter at 'All', ytd_filtered_df is
\* the published table itself (line 705) and line 766 adds a column to it,
\* unless pd.cut raises there, or before (230, 407, 583), on a Dwell Time
\* column of None, which ends the run with the table as it was.
Dashboard ==
    /\ pc \in {"success", "error", "warning"}
    /\ \E selected_shift_ytd \in ShiftOptions :
           session_state' =
               IF /\ session_state.published
                  /\ session_state.has_load_times
                  /\ selected_shift_ytd = "All"
                  /\ HasBothCompliances(session_state.merged_df)
               THEN [session_state EXCEPT
                        !.merged_df = WithDwellTimeCategory(session_state.merged_df)]
               ELSE session_state
    /\ pc' = "rendered"
    /\ UNCHANGED <<activity_tracker, order_view, trailer_activity, load_times,
                   order_report, trailer_report, joined,
                   previous, raw_table, create_datetime, shift_color>>

\* the raw files of a full run
RunActivityFile == File(<<ActivityRow(Base, "021"), ActivityRow(Base + 600, "021")>>)

\* appointments at 08:00; a LIVE one is due by 08:15, any other a day later
RunOrderRows ==
    {OrderRow(s, "049", Base, "ACME", v) : s \in {"S1", "S2"}, v \in {"LIVE", "DROP"}}

\* Events of two shipments, checked out at 20:00 (night slot): checked in at
\* 08:15 and loaded at 09:00 or at 06:59:59 (night slot, before the
\* appointment); checked in at 08:20 and loaded at 09:00 or at 08:19:50;
\* checked in at 07:59, before the appointment.  And events of S1 without
\* loaded time, or whose checkin or whose loaded time reads "NaT", and one
\* of S2 whose loaded time reads "NaT".
RunTrailerRows ==
    {TrailerRow(s, "CLOSED", Base + p[1], Base + 12 * 3600, Base + p[2]) :
        s \in {"S1", "S2"},
        p \in {<<900, 3600>>, <<900, -3601>>, <<1200, 3600>>, <<1200, 1190>>,
               <<-60, 3600>>}}
    \cup
    {TrailerRow("S1", "CLOSED", Base + 900, Base + 12 * 3600, NaT),
     TrailerRow("S1", "CLOSED", NaTText, Base + 12 * 3600, Base + 3600),
     TrailerRow("S1", "CLOSED", Base + 900, Base + 12 * 3600, NaTText),
     TrailerRow("S2", "CLOSED", Base + 1200, Base + 12 * 3600, NaTText)}

NoLocals ==
    /\ load_times = Returned(<<>>)
    /\ order_report = Returned(<<>>)
    /\ trailer_report = Returned(<<>>)
    /\ joined = <<>>
    /\ session_state = EmptySession
    /\ previous = EmptySession
    /\ create_datetime = NaT
    /\ shift_color = NaN

\* the script starts with the three uploader widgets filled, or with one or
\* more of them empty
Init ==
    /\ \/ /\ activity_tracker = RunActivityFile
          /\ order_view \in {File(t) : t \in SeqsUpTo(RunOrderRows, MaxRows)}
          /\ trailer_activity \in {File(t) : t \in SeqsUpTo(RunTrailerRows, MaxRows)}
       \/ /\ activity_tracker \in {NoFile, RunActivityFile}
          /\ order_view \in {NoFile} \cup {File(<<r>>) : r \in RunOrderRows}
          /\ trailer_activity \in {NoFile} \cup {File(<<r>>) : r \in RunTrailerRows}
          /\ ~(activity_tracker.present /\ order_view.present /\ trailer_activity.present)
    /\ NoLocals
    /\ raw_table = NoFrame
    /\ pc = "rerun"

Next == ProcessUploads \/ PublishMergedDf \/ PublishLoadTimes \/ Dashboard

Spec == Init /\ [][Next]_vars

-----------------------------------------------------------------------------
(* A session: the user changes the uploads and the script runs again *)

\* no file, a file that cannot be read, two files that clean, and a file
\* with an event without order identifier, on which the cleaner fails
SessionActivityFiles ==
    {NoFile, CorruptFile, RunActivityFile,
     File(<<ActivityRow(Base, "049")>>),
     File(<<ActivityRow(Base, NaN)>>)}

\* no file, three files that clean, a file with an unparseable appointment,
\* a file without the Carrier column, on which the SELECT fails, and one
\* without it whose only order, having no shipment identifier, is dropped
SessionOrderFiles ==
    {NoFile,
     File(<<OrderRow("S1", "049", Base, "ACME", "LIVE")>>),
     File(<<OrderRow("S1", "049", Base, "ACME", "LIVE"),
            OrderRow("S2", "049", Base, "ACME", "LIVE")>>),
     File(Without(<<OrderRow(NaN, "049", Base, "ACME", "LIVE")>>, "Carrier")),
     File(<<OrderRow("S1", "049", Base, "ACME", "DROP")>>),
     File(<<OrderRow("S1", "049", Unparseable, "ACME", "LIVE")>>),
     File(Without(<<OrderRow("S1", "049", Base, "ACME", "LIVE")>>, "Carrier"))}

\* no file, three files that clean (the last with a checkin at 08:15, on
\* time, and one at 08:20, late), a file with an unparseable event time, and
\* a file of two events whose times read "NaT", which leaves every joined row
\* without loaded time
SessionTrailerFiles ==
    {NoFile,
     File(<<TrailerRow("S1", "CLOSED", Base + 900, Base + 7200, Base + 3600),
            TrailerRow("S2", "CLOSED", Base + 1200, Base + 7200, Base + 3600)>>),
     File(<<TrailerRow("S1", "CLOSED", Base + 900, Base + 7200, Base + 3600)>>),
     File(<<TrailerRow("S1", "CLOSED", Base + 1200, Base + 7200, Base + 3600)>>),
     File(<<TrailerRow("S1", "CLOSED", Base + 900, Base + 7200, Unparseable)>>),
     File(<<TrailerRow("S1", "CLOSED", Base + 900, Base + 7200, NaTText),
            TrailerRow("S2", "CLOSED", Base + 1200, Base + 7200, NaTText)>>)}

\* The user changes the uploader widgets, during a run or after it.  Streamlit
\* stops a running script at its next yield point (an st.* call or an access
\* to st.session_state: before line 133, 134 or 135, or in the dashboard) and
\* runs the script again from its first line, with fresh locals and the
\* session as the stopped run left it.
Upload ==
    /\ pc \in {"rerun", "processed", "merged_df_published", "success", "error",
               "warning", "rendered"}
    /\ activity_tracker' \in SessionActivityFiles
    /\ order_view' \in SessionOrderFiles
    /\ trailer_activity' \in SessionTrailerFiles
    /\ load_times' = Returned(<<>>)
    /\ order_report' = Returned(<<>>)
    /\ trailer_report' = Returned(<<>>)
    /\ joined' = <<>>
    /\ previous' = session_state
    /\ pc' = "rerun"
    /\ UNCHANGED <<session_state, raw_table, create_datetime, shift_color>>

InitSession ==
    /\ activity_tracker = NoFile
    /\ order_view = NoFile
    /\ trailer_activity = NoFile
    /\ NoLocals
    /\ raw_table = NoFrame
    /\ pc = "rerun"

NextSession ==
    Upload \/ ProcessUploads \/ PublishMergedDf \/ PublishLoadTimes \/ Dashboard

SpecSession == InitSession /\ [][NextSession]_vars

-----------------------------------------------------------------------------
(* clean_order_view on its own *)

\* exports whose rows differ in every kept cell, rows whose visit type is
\* "LIVE" in another spelling, and rows whose appointment reads "NaT"
OrderRows ==
    {OrderRow(s, "049", a, c, v) :
        s \in {"S1", "S2", NaN},
        a \in {Base, Base + 1800, NaT},
        c \in {"ACME", "ZED", NaN},
        v \in {"LIVE", "DROP"}}
    \cup
    {OrderRow("S2", "049", Base, "ACME", v) : v \in {"live", "LIVE "}}
    \cup
    {OrderRow(s, "049", NaTText, "ACME", "LIVE") : s \in {"S1", "S2"}}

CleanOrderView ==
    /\ pc = "clean_order_view"
    /\ order_report' = clean_order_view(order_view.rows)
    /\ raw_table' = InPlaceOrderView(raw_table)
    /\ pc' = "returned"
    /\ UNCHANGED <<activity_tracker, order_view, trailer_activity, load_times,
                   trailer_report, joined, session_state,
                   previous, create_datetime, shift_color>>

InitOrderView ==
    /\ activity_tracker = NoFile
    /\ order_view \in {File(t) : t \in SeqsUpTo(OrderRows, MaxOrderRows)}
    /\ trailer_activity = NoFile
    /\ NoLocals
    /\ raw_table = Frame(order_view.rows)
    /\ pc = "clean_order_view"

NextOrderView == CleanOrderView

SpecOrderView == InitOrderView /\ [][NextOrderView]_vars

-----------------------------------------------------------------------------
(* clean_trailer_activity on its own *)

\* 2025-01-01 08:00:00, a day the calendar of 2024 does not list
OffCalendar == 366 * Day + 8 * 3600

\* events of one shipment that differ in what makes them eligible, and
\* complete CLOSED events of two shipments that differ in their timestamps
TrailerRows ==
    {TrailerRow(s, act, ci, co, dt) :
        s \in {"S1", NaN},
        act \in {"CLOSED", "closed", "CLOSED "},
        ci \in {Base, NaT},
        co \in {Base + 7200, NaT},
        dt \in {Base + 3600, NaT}}
    \cup
    {TrailerRow(s, "CLOSED", Base + m, Base + 7200 + m, dt) :
        s \in {"S1", "S2"},
        m \in {0, 900},
        dt \in {Base + 3600, Base + 5400}}
    \cup
    {TrailerRow(s, "CLOSED", OffCalendar, OffCalendar + 7200, OffCalendar + 3600) :
        s \in {"S1", "S2"}}
    \cup
    \* complete CLOSED events one of whose three times reads "NaT"
    {TrailerRow("S1", "CLOSED", NaTText, Base + 7200, Base + 3600),
     TrailerRow("S1", "CLOSED", Base, NaTText, Base + 3600),
     TrailerRow("S1", "CLOSED", Base, Base + 7200, NaTText),
     TrailerRow("S2", "CLOSED", Base + 900, Base + 8100, NaTText)}

CleanTrailerActivity ==
    /\ pc = "clean_trailer_activity"
    /\ trailer_report' = clean_trailer_activity(trailer_activity.rows)
    /\ raw_table' = InPlaceTrailerActivity(raw_table)
    /\ pc' = "returned"
    /\ UNCHANGED <<activity_tracker, order_view, trailer_activity, load_times,
                   order_report, joined, session_state,
                   previous, create_datetime, shift_color>>

InitTrailerActivity ==
    /\ activity_tracker = NoFile
    /\ order_view = NoFile
    /\ trailer_activity \in {File(t) : t \in SeqsUpTo(TrailerRows, MaxTrailerRows)}
    /\ NoLocals
    /\ raw_table = Frame(trailer_activity.rows)
    /\ pc = "clean_trailer_activity"

NextTrailerActivity == CleanTrailerActivity

SpecTrailerActivity == InitTrailerActivity /\ [][NextTrailerActivity]_vars

-----------------------------------------------------------------------------
(* Properties of the joined rows and of the published compliance table *)

Published == session_state.merged_df

\* C1: a joined row is "On Time" exactly when its checkin is present and not
\* after its required time (equal counts as on time); every other row is "Late".
C1_ComplianceRule ==
    \A i \in 1..Len(joined) :
        LET r == joined[i]
            inTime == /\ r["Checkin DateTime"] # NaT
                      /\ r["Required DateTime"] >= r["Checkin DateTime"]
        IN  /\ inTime => r["Compliance"] = "On Time"
            /\ ~inTime => r["Compliance"] = "Late"

\* a run that joined a row checked in exactly at its required time and a row
\* without checkin
C1_Witness ==
    /\ pc = "success"
    /\ \E i, k \in 1..Len(joined) :
        /\ joined[i]["Checkin DateTime"] = joined[i]["Required DateTime"]
        /\ joined[i]["Compliance"] = "On Time"
        /\ joined[k]["Checkin DateTime"] = NaT
        /\ joined[k]["Compliance"] = "Late"

\* C2 as stated: a joined row without loaded time has no dwell time, and a
\* joined row with a loaded time has as its dwell time the time from its
\* reference (appointment if On Time, checkin if Late) to the loaded time, in
\* hours to the nearest hundredth.
C2_DwellFromReference ==
    \A i \in 1..Len(joined) :
        LET r == joined[i]
            dwell == r["Dwell Time (Hours)"]
            secs == r["Loaded DateTime"] - Reference(r)
        IN  IF r["Loaded DateTime"] = NaT
            THEN isna(dwell)
            ELSE /\ ~isna(dwell)
                 /\ 36 * dwell[1] - secs <= 18
                 /\ secs - 36 * dwell[1] <= 18

\* C2, amended: a joined row without loaded time has no dwell time.  A joined
\* row with a loaded time has as its dwell time the time from its reference
\* (appointment if On Time, checkin if Late) to the loaded time, in hours to
\* the nearest hundredth, unless that number is negative or the row is Late
\* for want of a checkin: then, and only then, it has no dwell time.
C2_DwellFromReferenceUnlessNegative ==
    \A i \in 1..Len(joined) :
        LET r == joined[i]
            dwell == r["Dwell Time (Hours)"]
            secs == r["Loaded DateTime"] - Reference(r)
        IN  IF r["Loaded DateTime"] = NaT \/ Reference(r) = NaT
            THEN isna(dwell)
            ELSE /\ secs < -18 => isna(dwell)
                 /\ isna(dwell) => secs <= -18
                 /\ ~isna(dwell) =>
                        /\ dwell[1] >= 0
                        /\ 36 * dwell[1] - secs <= 18
                        /\ secs - 36 * dwell[1] <= 18

\* a run with a Late row whose 0.67 hours count from the checkin and an On
\* Time row loaded an hour and a second before its appointment, without
\* dwell time
C2_Witness ==
    /\ pc = "success"
    /\ \E i, j \in 1..Len(joined) :
        /\ joined[i]["Compliance"] = "Late"
        /\ joined[i]["Loaded DateTime"] = joined[i]["Checkin DateTime"] + 2400
        /\ joined[i]["Dwell Time (Hours)"] = <<67>>
        /\ joined[j]["Compliance"] = "On Time"
        /\ joined[j]["Loaded DateTime"] = joined[j]["Appointment DateTime"] - 3601
        /\ isna(joined[j]["Dwell Time (Hours)"])

\* C3: a joined row loaded strictly before its reference time, by however
\* little, has no dwell time.
C3_LoadedBeforeReferenceIsNull ==
    \A i \in 1..Len(joined) :
        LET r == joined[i]
        IN  (r["Loaded DateTime"] # NaT /\ r["Loaded DateTime"] < Reference(r))
            => isna(r["Dwell Time (Hours)"])

\* C4: no published row has a negative dwell time.
C4_DwellNeverNegative ==
    \A i \in 1..Len(Published) :
        ~isna(Published[i]["Dwell Time (Hours)"])
        => Published[i]["Dwell Time (Hours)"][1] >= 0

\* a published table with a row loaded an hour before its appointment, left
\* without dwell time, and a row with a positive dwell time
C4_Witness ==
    /\ pc = "success"
    /\ \E i, j \in 1..Len(Published) :
        /\ Published[i]["Loaded DateTime"] < Published[i]["Appointment DateTime"]
        /\ Published[i]["Compliance"] = "On Time"
        /\ isna(Published[i]["Dwell Time (Hours)"])
        /\ ~isna(Published[j]["Dwell Time (Hours)"])
        /\ Published[j]["Dwell Time (Hours)"][1] > 0

\* C5: every published row has a checkin time.
C5_PublishedHasCheckin ==
    \A i \in 1..Len(Published) : Published[i]["Checkin DateTime"] # NaT

\* a run whose join had a row without checkin and which published a row
C5_Witness ==
    /\ pc = "success"
    /\ \E i \in 1..Len(joined) : joined[i]["Checkin DateTime"] = NaT
    /\ Published # <<>>

\* the order records whose shipment has no trailer record
Unmatched ==
    {i \in 1..Len(order_report.rows) :
        \A j \in 1..Len(trailer_report.rows) :
            trailer_report.rows[j]["Shipment Num"] # order_report.rows[i]["Shipment Num"]}

\* C6: after a successful run, an order record without trailer record has a
\* joined row, classified "Late", and no published row.
C6_UnmatchedOrderPruned ==
    pc = "success" =>
        \A i \in Unmatched :
            LET ship == order_report.rows[i]["Shipment Num"]
            IN  /\ \E j \in 1..Len(joined) : joined[j]["Shipment Num"] = ship
                /\ \A j \in 1..Len(joined) :
                       joined[j]["Shipment Num"] = ship => joined[j]["Compliance"] = "Late"
                /\ \A j \in 1..Len(Published) : Published[j]["Shipment Num"] # ship

\* a successful run with an unmatched order record next to a matched one
C6_Witness ==
    /\ pc = "success"
    /\ Unmatched # {}
    /\ Published # <<>>

\* C7: the join has exactly one row for each order record, and no shipment
\* occurs twice in the join or in the published table.
C7_OneRowPerOrder ==
    pc = "success" =>
        /\ \A i \in 1..Len(order_report.rows) :
               Cardinality({j \in 1..Len(joined) :
                   joined[j]["Shipment Num"] = order_report.rows[i]["Shipment Num"]}) = 1
        /\ \A i, j \in 1..Len(joined) :
               joined[i]["Shipment Num"] = joined[j]["Shipment Num"] => i = j
        /\ \A i, j \in 1..Len(Published) :
               Published[i]["Shipment Num"] = Published[j]["Shipment Num"] => i = j

\* a run whose raw orders and raw trailer events both repeat a shipment that
\* is published
C7_Witness ==
    /\ pc = "success"
    /\ \E a, b \in 1..Len(order_view.rows), c, d \in 1..Len(trailer_activity.rows) :
        /\ a # b
        /\ c # d
        /\ order_view.rows[a]["Shipment #"] = order_view.rows[b]["Shipment #"]
        /\ trailer_activity.rows[c]["SHIPMENT_ID"] = order_view.rows[a]["Shipment #"]
        /\ trailer_activity.rows[d]["SHIPMENT_ID"] = order_view.rows[a]["Shipment #"]
        /\ \E i \in 1..Len(Published) :
               Published[i]["Shipment Num"] = order_view.rows[a]["Shipment #"]

-----------------------------------------------------------------------------
(* Properties of clean_order_view *)

\* C8: the order records have distinct shipments, and each is built from a raw
\* row of its shipment whose appointment is the latest of that shipment's rows.
C8_OrderDedupKeepsLatest ==
    (pc = "returned" /\ ~order_report.failed) =>
        LET raw == order_view.rows
            out == order_report.rows
        IN  /\ \A i, j \in 1..Len(out) :
                   out[i]["Shipment Num"] = out[j]["Shipment Num"] => i = j
            /\ \A i \in 1..Len(out) :
                   /\ \E k \in 1..Len(raw) :
                       /\ raw[k]["Shipment #"] = out[i]["Shipment Num"]
                       /\ raw[k]["Appointment Date"] = out[i]["Appointment DateTime"]
                       /\ raw[k]["SAP Delivery # (Order#)"] = out[i]["Order Num"]
                       /\ raw[k]["Carrier"] = out[i]["Carrier"]
                       /\ raw[k]["Appointment Type"] = out[i]["Visit Type"]
                   /\ \A k \in 1..Len(raw) :
                       raw[k]["Shipment #"] = out[i]["Shipment Num"]
                       => raw[k]["Appointment Date"] <= out[i]["Appointment DateTime"]

\* a raw file that lists a shipment's earlier appointment before its later
\* one, with different carriers, cleaned to the later one
C8_Witness ==
    /\ pc = "returned"
    /\ \E a, b \in 1..Len(order_view.rows) :
        /\ a < b
        /\ order_view.rows[a]["Shipment #"] = order_view.rows[b]["Shipment #"]
        /\ order_view.rows[a]["Appointment Date"] # NaT
        /\ order_view.rows[a]["Appointment Date"] < order_view.rows[b]["Appointment Date"]
        /\ order_view.rows[a]["Carrier"] # order_view.rows[b]["Carrier"]
        /\ order_view.rows[a]["Carrier"] # NaN
        /\ \E i \in 1..Len(order_report.rows) :
            /\ order_report.rows[i]["Shipment Num"] = order_view.rows[b]["Shipment #"]
            /\ order_report.rows[i]["Carrier"] = order_view.rows[b]["Carrier"]

-----------------------------------------------------------------------------
(* Properties of clean_trailer_activity *)

\* a raw trailer event that may become a trailer record
Eligible(r) ==
    /\ r["ACTIVITY TYPE "] = "CLOSED"
    /\ r["SHIPMENT_ID"] # NaN
    /\ r["CHECKIN DATE TIME"] # NaT
    /\ r["CHECKOUT DATE TIME"] # NaT
    /\ r["Date/Time"] # NaT

\* trailer record t has the shipment and, parsed, the three timestamps of
\* raw event r
BuiltFrom(t, r) ==
    /\ r["SHIPMENT_ID"] = t["Shipment Num"]
    /\ to_datetime(r["CHECKIN DATE TIME"]) = t["Checkin DateTime"]
    /\ to_datetime(r["CHECKOUT DATE TIME"]) = t["Checkout DateTime"]
    /\ to_datetime(r["Date/Time"]) = t["Loaded DateTime"]

\* C9: the trailer records have distinct shipments, and each takes its checkin,
\* checkout and loaded times from one eligible raw event of its shipment whose
\* Date/Time is the latest of that shipment's eligible events.
C9_TrailerDedupKeepsLatest ==
    (pc = "returned" /\ ~trailer_report.failed) =>
        LET raw == trailer_activity.rows
            out == trailer_report.rows
        IN  /\ \A i, j \in 1..Len(out) :
                   out[i]["Shipment Num"] = out[j]["Shipment Num"] => i = j
            /\ \A i \in 1..Len(out) :
                   \E k \in 1..Len(raw) :
                       /\ Eligible(raw[k])
                       /\ BuiltFrom(out[i], raw[k])
                       /\ \A m \in 1..Len(raw) :
                           (Eligible(raw[m]) /\ raw[m]["SHIPMENT_ID"] = raw[k]["SHIPMENT_ID"])
                           => to_datetime(raw[m]["Date/Time"]) <=
                                  to_datetime(raw[k]["Date/Time"])

\* a raw file with two eligible events of one shipment, the earlier one first
\* and with other checkin and checkout times, cleaned to the later event
C9_Witness ==
    /\ pc = "returned"
    /\ \E a, b \in 1..Len(trailer_activity.rows) :
        LET ra == trailer_activity.rows[a]
            rb == trailer_activity.rows[b]
        IN  /\ a < b
            /\ Eligible(ra)
            /\ Eligible(rb)
            /\ ra["SHIPMENT_ID"] = rb["SHIPMENT_ID"]
            /\ to_datetime(ra["Date/Time"]) # NaT
            /\ ra["Date/Time"] < rb["Date/Time"]
            /\ ra["CHECKIN DATE TIME"] # rb["CHECKIN DATE TIME"]
            /\ ra["CHECKOUT DATE TIME"] # rb["CHECKOUT DATE TIME"]
            /\ \E i \in 1..Len(trailer_report.rows) : BuiltFrom(trailer_report.rows[i], rb)

\* C10: every trailer record has the shipment of a raw event whose activity
\* type is exactly "CLOSED" and whose four kept cells are all present; a
\* shipment without such an event has no trailer record.
C10_OnlyClosedAndComplete ==
    (pc = "returned" /\ ~trailer_report.failed) =>
        LET raw == trailer_activity.rows
            out == trailer_report.rows
            ships == {raw[k]["SHIPMENT_ID"] : k \in 1..Len(raw)}
        IN  /\ \A i \in 1..Len(out) :
                   \E k \in 1..Len(raw) :
                       /\ raw[k]["ACTIVITY TYPE "] = "CLOSED"
                       /\ \A c \in TrailerColumnsToKeep : notna(raw[k], c)
                       /\ raw[k]["SHIPMENT_ID"] = out[i]["Shipment Num"]
            /\ \A s \in ships :
                   (\A k \in 1..Len(raw) : raw[k]["SHIPMENT_ID"] = s => ~Eligible(raw[k]))
                   => \A i \in 1..Len(out) : out[i]["Shipment Num"] # s

\* a raw file with a complete "closed" event and a complete "CLOSED " event
\* of a shipment, cleaned to no trailer record
C10_Witness ==
    /\ pc = "returned"
    /\ trailer_report.rows = <<>>
    /\ \E a, b \in 1..Len(trailer_activity.rows) :
        LET ra == trailer_activity.rows[a]
            rb == trailer_activity.rows[b]
        IN  /\ ra["ACTIVITY TYPE "] = "closed"
            /\ rb["ACTIVITY TYPE "] = "CLOSED "
            /\ \A c \in TrailerColumnsToKeep : notna(ra, c) /\ notna(rb, c)

-----------------------------------------------------------------------------
(* clean_activity_tracker on its own *)

\* the most rows of a raw activity table
MaxActivityRows == 3

\* events at 08:00:00, 08:10:00 and 20:00:01 of January 10, or without a
\* creation time, with each order identifier or without one; and events of
\* order 021 on a day the calendar does not list or with a creation time
\* that reads "NaT"
ActivityRows ==
    {ActivityRow(t, o) :
        t \in {Base, Base + 600, Base + 12 * 3600 + 1, NaT},
        o \in {OrderNums[i] : i \in 1..Len(OrderNums)} \cup {NaN}}
    \cup
    {ActivityRow(OffCalendar, "021"), ActivityRow(NaTText, "021")}

CleanActivityTracker ==
    /\ pc = "clean_activity_tracker"
    /\ load_times' = clean_activity_tracker(activity_tracker.rows)
    /\ raw_table' = InPlaceActivityTracker(raw_table)
    /\ pc' = "returned"
    /\ UNCHANGED <<activity_tracker, order_view, trailer_activity, order_report,
                   trailer_report, joined, session_state,
                   previous, create_datetime, shift_color>>

InitActivityTracker ==
    /\ activity_tracker \in {File(t) : t \in SeqsUpTo(ActivityRows, MaxActivityRows)}
    /\ order_view = NoFile
    /\ trailer_activity = NoFile
    /\ NoLocals
    /\ raw_table = Frame(activity_tracker.rows)
    /\ pc = "clean_activity_tracker"

NextActivityTracker == CleanActivityTracker

SpecActivityTracker == InitActivityTracker /\ [][NextActivityTracker]_vars

-----------------------------------------------------------------------------
(* The three cleaners on raw tables with unparseable timestamps or with a
   column missing *)

\* the most rows of such a raw table
MaxCleanerRows == 2

\* events with a creation time that parses, does not parse, reads "NaT" or
\* is of a day the calendar does not list
CleanerActivityRows ==
    {ActivityRow(t, o) : t \in {Base, Unparseable}, o \in {"021", "049", NaN}}
    \cup
    {ActivityRow(OffCalendar, "021"), ActivityRow(NaTText, "021")}

CleanerOrderRows ==
    {OrderRow(s, "049", a, c, "LIVE") :
        s \in {"S1", NaN}, a \in {Base, Unparseable}, c \in {"ACME", NaN}}
    \cup
    {OrderRow("S1", "049", NaTText, "ACME", "LIVE")}

CleanerTrailerRows ==
    {TrailerRow(s, act, ci, co, dt) :
        s \in {"S1", NaN},
        act \in {"CLOSED", "OPEN"},
        ci \in {Base, Unparseable},
        co \in {Base + 7200, Unparseable},
        dt \in {Base + 3600, Base + 5400, Unparseable}}
    \cup
    {TrailerRow("S1", "CLOSED", OffCalendar, OffCalendar + 7200, OffCalendar + 3600),
     TrailerRow("S1", "CLOSED", NaTText, Base + 7200, Base + 3600)}

\* the tables of up to MaxCleanerRows of the rows, and the one-row tables
\* with one of the columns cols left out
CleanerTables(rows, cols) ==
    SeqsUpTo(rows, MaxCleanerRows) \cup
    {Without(<<r>>, c) : r \in rows, c \in cols}

InitCleaners ==
    /\ \/ /\ activity_tracker \in
                 {File(t) : t \in CleanerTables(CleanerActivityRows, ActivityColumnsToKeep)}
          /\ order_view = NoFile
          /\ trailer_activity = NoFile
          /\ pc = "clean_activity_tracker"
       \/ /\ activity_tracker = NoFile
          /\ order_view \in
                 {File(t) : t \in CleanerTables(CleanerOrderRows, OrderColumnsToKeep)}
          /\ trailer_activity = NoFile
          /\ pc = "clean_order_view"
       \/ /\ activity_tracker = NoFile
          /\ order_view = NoFile
          /\ trailer_activity \in
                 {File(t) : t \in CleanerTables(CleanerTrailerRows, TrailerColumnsRead)}
          /\ pc = "clean_trailer_activity"
    /\ NoLocals
    /\ raw_table = Frame(IF activity_tracker.present THEN activity_tracker.rows
                         ELSE IF order_view.present THEN order_view.rows
                         ELSE trailer_activity.rows)

NextCleaners == CleanActivityTracker \/ CleanOrderView \/ CleanTrailerActivity

SpecCleaners == InitCleaners /\ [][NextCleaners]_vars

-----------------------------------------------------------------------------
(* get_shift on its own *)

\* January 9, 10 and 11 of 2024 (the crews change between the 10th and the
\* 11th) and January 1 of 2025, which the calendar of 2024 does not list
ResolverDays == {8, 9, 10, 366}

\* every hour of these days, at its first and at its last second
ResolverTimes ==
    {d * Day + h * 3600 + sec : d \in ResolverDays, h \in 0..23, sec \in {0, 3599}}

GetShift ==
    /\ pc = "get_shift"
    /\ shift_color' = get_shift(create_datetime)
    /\ pc' = "returned"
    /\ UNCHANGED <<activity_tracker, order_view, trailer_activity, load_times,
                   order_report, trailer_report, joined, session_state,
                   previous, raw_table, create_datetime>>

InitGetShift ==
    /\ activity_tracker = NoFile
    /\ order_view = NoFile
    /\ trailer_activity = NoFile
    /\ load_times = Returned(<<>>)
    /\ order_report = Returned(<<>>)
    /\ trailer_report = Returned(<<>>)
    /\ joined = <<>>
    /\ session_state = EmptySession
    /\ previous = EmptySession
    /\ raw_table = NoFrame
    /\ create_datetime \in ResolverTimes
    /\ shift_color = NaN
    /\ pc = "get_shift"

NextGetShift == GetShift

SpecGetShift == InitGetShift /\ [][NextGetShift]_vars

-----------------------------------------------------------------------------
(* Claims C11..C20 *)

\* C11: every Order Record's required-by timestamp is its appointment
\* timestamp plus 15 minutes when its visit type is exactly "LIVE", and its
\* appointment timestamp plus 24 hours for every other visit type.
C11_RequiredByWindow ==
    (pc = "returned" /\ ~order_report.failed) =>
        \A i \in 1..Len(order_report.rows) :
            LET r == order_report.rows[i]
            IN  /\ r["Visit Type"] = "LIVE" =>
                       r["Required DateTime"] = r["Appointment DateTime"] + 15 * 60
                /\ r["Visit Type"] # "LIVE" =>
                       r["Required DateTime"] = r["Appointment DateTime"] + 24 * 3600

\* a returned table with a "LIVE" order and an order spelled "live"
C11_Witness ==
    /\ pc = "returned"
    /\ ~order_report.failed
    /\ \E i, j \in 1..Len(order_report.rows) :
           /\ order_report.rows[i]["Visit Type"] = "LIVE"
           /\ order_report.rows[i]["Required DateTime"] = Base + 900
           /\ order_report.rows[j]["Visit Type"] = "live"
           /\ order_report.rows[j]["Required DateTime"] = Base + 86400

\* the hour of day and the day since 2024-01-01 of the timestamp passed to get_shift
C12_Hour == (create_datetime % Day) \div 3600
C12_Date == create_datetime \div Day

\* C12: get_shift maps a timestamp with hour h to slot "1" when 7 <= h < 19
\* and to slot "2" otherwise (07:00 is slot 1, 19:00 and 06:59 are slot 2),
\* and returns that slot's column of the calendar row of the timestamp's own
\* date, also for the hours 0 to 6.
C12_SlotOfOwnDate ==
    (pc = "returned" /\ C12_Date \in CalendarDays) =>
        /\ C12_Hour \in 7..18 => shift_color = ShiftCalendar[C12_Date]["1"]
        /\ C12_Hour \in (0..6) \cup (19..23) => shift_color = ShiftCalendar[C12_Date]["2"]
        /\ create_datetime % Day = 7 * 3600 => shift_color = ShiftCalendar[C12_Date]["1"]
        /\ create_datetime % Day = 19 * 3600 => shift_color = ShiftCalendar[C12_Date]["2"]
        /\ create_datetime % Day = 6 * 3600 + 3599 => shift_color = ShiftCalendar[C12_Date]["2"]

\* 03:00 on January 11: the night crew of the 11th, not that of the 10th
C12_Witness ==
    /\ pc = "returned"
    /\ create_datetime = 10 * Day + 3 * 3600
    /\ shift_color = "Gold"
    /\ ShiftCalendar[9]["2"] = "Green"

\* the raw table t has an unparseable cell in one of the columns cols
HasUnparseable(t, cols) ==
    \E k \in 1..Len(t) : \E c \in cols \cap DOMAIN t[k] : t[k][c] = Unparseable

\* the timestamp columns of the raw trailer events
TrailerTimestamps == {"Date/Time", "CHECKIN DATE TIME", "CHECKOUT DATE TIME"}

\* every row of raw table t has the columns cols
HasColumns(t, cols) == \A k \in 1..Len(t) : cols \subseteq DOMAIN t[k]

\* the creation times, parsed, of the raw activity events of order o, in
\* raw order
EventTimesInOrder(o) ==
    LET group == SelectSeq(activity_tracker.rows, LAMBDA r : r["Order #"] = o)
    IN  [i \in 1..Len(group) |-> to_datetime(group[i]["Create DateTime"])]

\* timestamp t is of a date the shift calendar does not list
OffCalendarDate(t) == t # NaT /\ t \div Day \notin CalendarDays

\* the raw trailer table t has its columns and no unparseable timestamp
TrailerTableParses(t) ==
    HasColumns(t, TrailerColumnsRead) /\ ~HasUnparseable(t, TrailerTimestamps)

\* the raw activity table t has its columns, no unparseable creation time
\* and no event without order identifier
ActivityTableParses(t) ==
    /\ HasColumns(t, ActivityColumnsToKeep)
    /\ ~HasUnparseable(t, {"Create DateTime"})
    /\ \A k \in 1..Len(t) : t[k]["Order #"] # NaN

\* C13 as stated: when the date of a timestamp is not in the shift calendar,
\* the cleaner still returns its table and the output row carries the
\* unresolved sentinel as its Shift: the Trailer Record of such a checkin,
\* and the Load Record of an order whose first event is of such a date.
C13_AbsentDateGivesSentinel ==
    pc = "returned" =>
        /\ (trailer_activity.present /\ TrailerTableParses(trailer_activity.rows)) =>
               /\ ~trailer_report.failed
               /\ \A k \in 1..Len(trailer_activity.rows) :
                      Eligible(trailer_activity.rows[k]) =>
                          \E i \in 1..Len(trailer_report.rows) :
                              trailer_report.rows[i]["Shipment Num"] =
                                  trailer_activity.rows[k]["SHIPMENT_ID"]
               /\ \A i \in 1..Len(trailer_report.rows) :
                      LET t == trailer_report.rows[i]
                      IN  t["Checkin DateTime"] \div Day \notin CalendarDays =>
                              t["Shift"] = NaN
        /\ (activity_tracker.present /\ ActivityTableParses(activity_tracker.rows)) =>
               /\ ~load_times.failed
               /\ \A i \in 1..Len(load_times.rows) :
                      LET r == load_times.rows[i]
                      IN  OffCalendarDate(EventTimesInOrder(r["Order Num"])[1]) =>
                              r["Shift"] = NaN

\* C13, amended: when the date of a timestamp is not in the shift calendar,
\* the cleaner still returns its table.  The Trailer Record of such a checkin
\* carries the unresolved sentinel as its Shift.  A Load Record carries it
\* only when the calendar lists the date of none of its order's events;
\* otherwise its Shift is that of the first event whose date is listed.
C13_AbsentDateSentinelUnlessLaterEventResolves ==
    pc = "returned" =>
        /\ (trailer_activity.present /\ TrailerTableParses(trailer_activity.rows)) =>
               /\ ~trailer_report.failed
               /\ \A k \in 1..Len(trailer_activity.rows) :
                      Eligible(trailer_activity.rows[k]) =>
                          \E i \in 1..Len(trailer_report.rows) :
                              trailer_report.rows[i]["Shipment Num"] =
                                  trailer_activity.rows[k]["SHIPMENT_ID"]
               /\ \A i \in 1..Len(trailer_report.rows) :
                      LET t == trailer_report.rows[i]
                      IN  t["Checkin DateTime"] \div Day \notin CalendarDays =>
                              t["Shift"] = NaN
        /\ (activity_tracker.present /\ ActivityTableParses(activity_tracker.rows)) =>
               /\ ~load_times.failed
               /\ \A i \in 1..Len(load_times.rows) :
                      LET r      == load_times.rows[i]
                          times  == EventTimesInOrder(r["Order Num"])
                          listed == {n \in 1..Len(times) :
                                        times[n] # NaT /\ times[n] \div Day \in CalendarDays}
                      IN  IF listed = {}
                          THEN r["Shift"] = NaN
                          ELSE /\ r["Shift"] # NaN
                               /\ r["Shift"] = get_shift(times[SetMin(listed)])

\* an order whose first event is of 2025 and whose second is of January 10,
\* 2024, by day: the Load Record carries the day shift, not the sentinel
C13_Witness ==
    /\ pc = "returned"
    /\ activity_tracker.present
    /\ ~load_times.failed
    /\ EventTimesInOrder("021") = <<OffCalendar, Base>>
    /\ Len(load_times.rows) = 1
    /\ load_times.rows[1]["Shift"] = "Blue"

\* the creation times, parsed, of the raw activity events of order o
EventTimes(o) ==
    {to_datetime(activity_tracker.rows[k]["Create DateTime"]) :
        k \in {n \in 1..Len(activity_tracker.rows) :
                  activity_tracker.rows[n]["Order #"] = o}}

\* the number of raw activity events of order o
EventCount(o) ==
    Cardinality({n \in 1..Len(activity_tracker.rows) :
                    activity_tracker.rows[n]["Order #"] = o})

\* C14: the load duration of every Load Record is a number: the latest
\* activity timestamp of its order minus the earliest, in minutes rounded to
\* two decimals; it is never negative, and it is 0 for an order with exactly
\* one activity event.
C14_LoadDuration ==
    (pc = "returned" /\ ~load_times.failed) =>
        \A i \in 1..Len(load_times.rows) :
            LET r     == load_times.rows[i]
                times == EventTimes(r["Order Num"]) \ {NaT}
            IN  /\ r["Load Time (minutes)"] # NoLoadTime
                /\ LET m    == r["Load Time (minutes)"][1]
                       secs == SetMax(times) - SetMin(times)
                   IN  /\ m >= 0
                       /\ 6 * m >= 10 * secs - 3
                       /\ 6 * m <= 10 * secs + 3
                       /\ EventCount(r["Order Num"]) = 1 => m = 0

\* C15: the order type of a Load Record depends on its order identifier
\* alone: "Shuttle" when it starts with "02", "Customer Load" when it starts
\* with "04", and "Unknown" otherwise, also for the empty identifier and for
\* identifiers shorter than two characters.
C15_OrderTypeByPrefix ==
    (pc = "returned" /\ ~load_times.failed) =>
        \A i \in 1..Len(load_times.rows) :
            LET r == load_times.rows[i]
            IN  /\ r["Order Num"] = "021" => r["Order Type"] = "Shuttle"
                /\ r["Order Num"] = "049" => r["Order Type"] = "Customer Load"
                /\ r["Order Num"] = "102" => r["Order Type"] = "Unknown"
                /\ r["Order Num"] = "" => r["Order Type"] = "Unknown"
                /\ r["Order Num"] = "0" => r["Order Type"] = "Unknown"
                /\ r["Order Num"] \in {"021", "049", "102", "", "0"}

\* a returned table with the empty identifier, a one-character identifier
\* and an identifier with "02" after its first character
C15_Witness ==
    /\ pc = "returned"
    /\ ~load_times.failed
    /\ Len(load_times.rows) = 3
    /\ load_times.rows[1]["Order Num"] = ""
    /\ load_times.rows[2]["Order Num"] = "0"
    /\ load_times.rows[3]["Order Num"] = "102"
    /\ \A i \in 1..3 : load_times.rows[i]["Order Type"] = "Unknown"

\* C16: when clean_activity_tracker returns, its table has exactly one Load
\* Record for each order identifier that occurs in the raw activity events,
\* and none for any other identifier.
C16_OneRecordPerOrder ==
    (pc = "returned" /\ ~load_times.failed) =>
        /\ \A k \in 1..Len(activity_tracker.rows) :
               Cardinality({i \in 1..Len(load_times.rows) :
                               load_times.rows[i]["Order Num"] =
                                   activity_tracker.rows[k]["Order #"]}) = 1
        /\ \A i \in 1..Len(load_times.rows) :
               \E k \in 1..Len(activity_tracker.rows) :
                   activity_tracker.rows[k]["Order #"] = load_times.rows[i]["Order Num"]

\* three events of two orders give two Load Records
C16_Witness ==
    /\ pc = "returned"
    /\ ~load_times.failed
    /\ Len(activity_tracker.rows) = 3
    /\ EventCount("021") = 2
    /\ EventCount("049") = 1
    /\ Len(load_times.rows) = 2

\* C18: a raw table with an unparseable timestamp in any row of a timestamp
\* column (creation time; appointment; trailer event, checkin or checkout
\* time) fails its cleaner as a whole: no table is returned.
C18_UnparseableFailsCleaner ==
    pc = "returned" =>
        /\ (activity_tracker.present /\
                HasUnparseable(activity_tracker.rows, {"Create DateTime"}))
               => load_times.failed
        /\ (order_view.present /\
                HasUnparseable(order_view.rows, {"Appointment Date"}))
               => order_report.failed
        /\ (trailer_activity.present /\
                HasUnparseable(trailer_activity.rows, TrailerTimestamps))
               => trailer_report.failed

\* the raw table t, which has rows, lacks one of the columns cols
LacksColumn(t, cols) == t # <<>> /\ ~(cols \subseteq DOMAIN t[1])

\* C19: when one of a cleaner's required input columns is absent from the
\* raw table (for clean_order_view: shipment identifier, order identifier,
\* appointment timestamp, carrier, visit type), the cleaning call fails and
\* returns no table.
C19_MissingColumnFailsCleaner ==
    pc = "returned" =>
        /\ (activity_tracker.present /\
                LacksColumn(activity_tracker.rows, ActivityColumnsToKeep))
               => load_times.failed
        /\ (order_view.present /\ LacksColumn(order_view.rows, OrderColumnsToKeep))
               => order_report.failed
        /\ (trailer_activity.present /\
                LacksColumn(trailer_activity.rows, TrailerColumnsRead))
               => trailer_report.failed

\* the three uploader widgets all hold a file
AllUploaded ==
    activity_tracker.present /\ order_view.present /\ trailer_activity.present

\* a step of the run over the three uploads fails: a read, a cleaner or the
\* SELECT
RunFails ==
    /\ AllUploaded
    /\ \/ ~(activity_tracker.readable /\ order_view.readable /\ trailer_activity.readable)
       \/ clean_activity_tracker(activity_tracker.rows).failed
       \/ clean_order_view(order_view.rows).failed
       \/ clean_trailer_activity(trailer_activity.rows).failed
       \/ JoinFails(order_view.rows)

\* C17: a run in which a step fails (reading, a cleaner, the join) leaves the
\* published merged_df and load_times exactly as they were before the run,
\* from its except branch to its last line and over any sequence of runs; and
\* the upload block only changes the session in a run that succeeded, to the
\* tables that run computed in full.
C17_FailedRunKeepsPublished ==
    /\ (pc \in {"error", "rendered"} /\ RunFails) => session_state = previous
    /\ (pc \notin {"rerun", "rendered"} /\ session_state # previous) =>
           /\ pc \in {"merged_df_published", "success"}
           /\ ~load_times.failed /\ ~order_report.failed /\ ~trailer_report.failed
           /\ session_state.merged_df = PruneNoCheckin(joined)
           /\ pc = "success" => session_state.load_times = load_times.rows

\* C20: after a successful run the published tables are determined by the
\* three raw inputs of that run alone, whatever the session published before:
\* when the upload block has stored them, and when the run has drawn the
\* dashboard, they are the tables a session without history holds at that
\* point of a run over the same inputs (at the end of the run, the compliance
\* table with the column the dashboard adds under its default filter when
\* the table has rows On Time and Late).
C20_PublishedFromInputsAlone ==
    LET computed == PruneNoCheckin(
                        Derive(clean_order_view(order_view.rows).rows,
                               clean_trailer_activity(trailer_activity.rows).rows))
        loads    == clean_activity_tracker(activity_tracker.rows).rows
    IN  /\ pc = "success" =>
               session_state =
                   [published |-> TRUE, has_load_times |-> TRUE,
                    merged_df |-> computed, load_times |-> loads]
        /\ (pc = "rendered" /\ AllUploaded /\ ~RunFails) =>
               session_state =
                   [published |-> TRUE, has_load_times |-> TRUE,
                    merged_df |-> IF HasBothCompliances(computed)
                                  THEN WithDwellTimeCategory(computed)
                                  ELSE computed,
                    load_times |-> loads]

-----------------------------------------------------------------------------
(* Claims C21..C30 *)

\* the raw table uploaded for the cleaner that ran
UploadedRows ==
    IF activity_tracker.present THEN activity_tracker.rows
    ELSE IF order_view.present THEN order_view.rows
    ELSE trailer_activity.rows

\* C21: after clean_activity_tracker, clean_order_view or
\* clean_trailer_activity returns, the caller's input table has the same
\* column names and the same values as before the call.
C21_RawTableUnchanged ==
    ( /\ pc = "returned"
      /\ ~load_times.failed /\ ~order_report.failed /\ ~trailer_report.failed )
        => raw_table = Frame(UploadedRows)

\* raw order row k is the one kept for its shipment: no other row of the
\* shipment has a later appointment (an appointment that parses to no time
\* is the earliest), and of the rows with its appointment it is the first
RetainedOrder(raw, k) ==
    /\ raw[k]["Shipment #"] # NaN
    /\ \A n \in (1..Len(raw)) \ {k} :
           raw[n]["Shipment #"] = raw[k]["Shipment #"] =>
               \/ to_datetime(raw[n]["Appointment Date"]) <
                      to_datetime(raw[k]["Appointment Date"])
               \/ /\ to_datetime(raw[n]["Appointment Date"]) =
                         to_datetime(raw[k]["Appointment Date"])
                  /\ k < n

\* raw order row r, its appointment parsed, has no null in a kept column
CompleteOrder(r) ==
    \A c \in OrderColumnsToKeep :
        notna([r EXCEPT !["Appointment Date"] = to_datetime(@)], c)

\* C22: the Order Record of a shipment is built from the raw row with the
\* latest appointment among all rows of that shipment, and when that row has
\* a null in a kept column the shipment has no Order Record, whatever its
\* other rows hold.
C22_DedupBeforeNullFilter ==
    (pc = "returned" /\ ~order_report.failed) =>
        LET raw == order_view.rows
            out == order_report.rows
        IN  \A k \in 1..Len(raw) :
                RetainedOrder(raw, k) =>
                    IF CompleteOrder(raw[k])
                    THEN \E i \in 1..Len(out) :
                             /\ out[i]["Shipment Num"] = raw[k]["Shipment #"]
                             /\ out[i]["Appointment DateTime"] = raw[k]["Appointment Date"]
                             /\ out[i]["Order Num"] = raw[k]["SAP Delivery # (Order#)"]
                             /\ out[i]["Carrier"] = raw[k]["Carrier"]
                             /\ out[i]["Visit Type"] = raw[k]["Appointment Type"]
                    ELSE \A i \in 1..Len(out) :
                             out[i]["Shipment Num"] # raw[k]["Shipment #"]

\* a shipment whose later appointment lacks the carrier and whose earlier
\* appointment is complete: the table has no record of it
C22_Witness ==
    /\ pc = "returned"
    /\ ~order_report.failed
    /\ Len(order_view.rows) = 2
    /\ order_view.rows[1]["Shipment #"] = "S1"
    /\ order_view.rows[2]["Shipment #"] = "S1"
    /\ CompleteOrder(order_view.rows[1])
    /\ order_view.rows[1]["Appointment Date"] = Base
    /\ order_view.rows[2]["Appointment Date"] = Base + 1800
    /\ order_view.rows[2]["Carrier"] = NaN
    /\ order_report.rows = <<>>

\* C23: the Shift of every Trailer Record, and of every published compliance
\* row, is get_shift of that record's checkin timestamp, not of its
\* appointment, loaded or checkout timestamp.
C23_ShiftFromCheckin ==
    pc = "success" =>
        /\ \A i \in 1..Len(trailer_report.rows) :
               trailer_report.rows[i]["Shift"] =
                   get_shift(trailer_report.rows[i]["Checkin DateTime"])
        /\ \A i \in 1..Len(Published) :
               Published[i]["Shift"] = get_shift(Published[i]["Checkin DateTime"])

\* a published row checked in by day, loaded in the night before and checked
\* out in the night after: its Shift is that of the day
C23_Witness ==
    /\ pc = "success"
    /\ \E i \in 1..Len(Published) :
           /\ Published[i]["Shift"] = "Blue"
           /\ get_shift(Published[i]["Loaded DateTime"]) = "Green"
           /\ get_shift(Published[i]["Checkout DateTime"]) = "Green"
           /\ get_shift(Published[i]["Checkin DateTime"]) = "Blue"

\* C24 as stated: the Shift of a Load Record is get_shift of the first event
\* row of its order in raw input order.
C24_ShiftOfFirstEvent ==
    (pc = "returned" /\ ~load_times.failed) =>
        \A i \in 1..Len(load_times.rows) :
            load_times.rows[i]["Shift"] =
                get_shift(EventTimesInOrder(load_times.rows[i]["Order Num"])[1])

\* C24, amended: the Shift of a Load Record is get_shift of the first event
\* row of its order, in raw input order, for which get_shift finds a shift
\* (not of the chronologically earliest event); it is the sentinel only when
\* get_shift finds no shift for any event of the order.
C24_ShiftOfFirstResolvedEvent ==
    (pc = "returned" /\ ~load_times.failed) =>
        \A i \in 1..Len(load_times.rows) :
            LET times    == EventTimesInOrder(load_times.rows[i]["Order Num"])
                resolved == {n \in 1..Len(times) : get_shift(times[n]) # NaN}
            IN  IF resolved = {}
                THEN load_times.rows[i]["Shift"] = NaN
                ELSE load_times.rows[i]["Shift"] = get_shift(times[SetMin(resolved)])

\* an order whose first event in the file is its latest, in the night slot,
\* and whose second event is in the day slot: the Shift is the night's
C24_Witness ==
    /\ pc = "returned"
    /\ ~load_times.failed
    /\ Len(activity_tracker.rows) = 2
    /\ EventTimesInOrder("021") = <<Base + 12 * 3600 + 1, Base>>
    /\ load_times.rows[1]["Shift"] = "Green"
    /\ get_shift(Base) = "Blue"

\* the shipment identifiers of a table of records
ShipmentsOf(rows) == {rows[i]["Shipment Num"] : i \in 1..Len(rows)}

\* the rows of a table, as a set
RowsOf(rows) == {rows[i] : i \in 1..Len(rows)}

\* C25: the shipment identifiers of the published compliance table are those
\* that both an Order Record and a Trailer Record have, each once; the left
\* join followed by the prune gives the rows of an inner join.
C25_LeftJoinPrunedIsInnerJoin ==
    pc = "success" =>
        /\ ShipmentsOf(Published) =
               ShipmentsOf(order_report.rows) \cap ShipmentsOf(trailer_report.rows)
        /\ Cardinality(ShipmentsOf(Published)) = Len(Published)
        /\ LET inner == Derive_inner(order_report.rows, trailer_report.rows)
           IN  /\ RowsOf(Published) = RowsOf(inner)
               /\ Len(Published) = Len(inner)

\* C26: in every joined row the checkin is absent exactly when the loaded
\* time is absent; every published row has a loaded time, and its Dwell Time
\* is null only when the loaded time is before the reference time.
C26_CheckinIffLoaded ==
    pc = "success" =>
        /\ \A i \in 1..Len(joined) :
               joined[i]["Checkin DateTime"] = NaT <=> joined[i]["Loaded DateTime"] = NaT
        /\ \A i \in 1..Len(Published) :
               /\ Published[i]["Loaded DateTime"] # NaT
               /\ isna(Published[i]["Dwell Time (Hours)"]) =>
                      Published[i]["Loaded DateTime"] < Reference(Published[i])

\* C27: every Order Record is due strictly after its appointment; hence a
\* published row checked in at or before its appointment is "On Time", and
\* every "Late" published row was checked in strictly after its appointment.
C27_RequiredAfterAppointment ==
    pc = "success" =>
        /\ \A i \in 1..Len(order_report.rows) :
               order_report.rows[i]["Required DateTime"] >
                   order_report.rows[i]["Appointment DateTime"]
        /\ \A i \in 1..Len(Published) :
               LET r == Published[i]
               IN  /\ r["Checkin DateTime"] <= r["Appointment DateTime"] =>
                          r["Compliance"] = "On Time"
                   /\ r["Compliance"] = "Late" =>
                          r["Checkin DateTime"] > r["Appointment DateTime"]

\* a LIVE order checked in a minute before its appointment, On Time, next to
\* a Late row
C27_Witness ==
    /\ pc = "success"
    /\ \E i, j \in 1..Len(Published) :
           /\ Published[i]["Visit Type"] = "LIVE"
           /\ Published[i]["Checkin DateTime"] = Published[i]["Appointment DateTime"] - 60
           /\ Published[i]["Compliance"] = "On Time"
           /\ Published[j]["Compliance"] = "Late"
           /\ Published[j]["Checkin DateTime"] > Published[j]["Appointment DateTime"]

\* C28: over any sequence of runs, finished or abandoned, the published
\* compliance table and the published load-time table are of one run.  Line
\* 134 done and line 135 about to run aside, the session holds both tables or
\* none; and whenever either table differs from what the session held when
\* the run began (the column the dashboard adds to the compliance table left
\* aside), both are the tables this run computed from its three uploads.
C28_TablesOfOneRun ==
    pc # "merged_df_published" =>
        /\ session_state.published <=> session_state.has_load_times
        /\ (Without(session_state.merged_df, "Dwell Time Category") #
                    Without(previous.merged_df, "Dwell Time Category")
                \/ session_state.load_times # previous.load_times) =>
               /\ pc \in {"success", "rendered"}
               /\ Without(session_state.merged_df, "Dwell Time Category") =
                      PruneNoCheckin(Derive(clean_order_view(order_view.rows).rows,
                                            clean_trailer_activity(trailer_activity.rows).rows))
               /\ session_state.load_times =
                      clean_activity_tracker(activity_tracker.rows).rows

\* C29: a run with fewer than three files present ends in the warning, has
\* run no cleaner and no join (the locals of the run are untouched) and
\* leaves the published tables as they were when it began, to its last line;
\* a run reaches the processing branch (success or error) only with all three
\* files.
C29_IncompleteUploadKeepsPublished ==
    /\ (pc # "rerun" /\ ~AllUploaded) =>
           /\ pc \in {"warning", "rendered"}
           /\ load_times = Returned(<<>>)
           /\ order_report = Returned(<<>>)
           /\ trailer_report = Returned(<<>>)
           /\ joined = <<>>
           /\ session_state = previous
    /\ pc \in {"success", "error"} => AllUploaded
    /\ pc = "warning" => ~AllUploaded

\* the rows of raw table t whose identifier column c is not null
WithIdentifier(t, c) == SelectSeq(t, LAMBDA r : r[c] # NaN)

\* C30: clean_activity_tracker fails, returning no Load Record, when a raw
\* event has a null order identifier.  clean_order_view and
\* clean_trailer_activity leave out the rows with a null shipment identifier:
\* their outcome is the outcome for the table without those rows, no record
\* has a null shipment identifier, and with every timestamp parseable they
\* return a table.
C30_NullIdentifier ==
    pc = "returned" =>
        /\ (activity_tracker.present /\
                \E k \in 1..Len(activity_tracker.rows) :
                    /\ "Order #" \in DOMAIN activity_tracker.rows[k]
                    /\ activity_tracker.rows[k]["Order #"] = NaN)
               => load_times = Failed
        /\ (order_view.present /\ HasColumns(order_view.rows, OrderColumnsToKeep)) =>
               LET t == order_view.rows
               IN  /\ ~HasUnparseable(t, {"Appointment Date"}) =>
                          /\ ~order_report.failed
                          /\ order_report =
                                 clean_order_view(WithIdentifier(t, "Shipment #"))
                   /\ \A i \in 1..Len(order_report.rows) :
                          order_report.rows[i]["Shipment Num"] # NaN
        /\ (trailer_activity.present /\
                HasColumns(trailer_activity.rows, TrailerColumnsRead)) =>
               LET t == trailer_activity.rows
               IN  /\ trailer_report =
                          clean_trailer_activity(WithIdentifier(t, "SHIPMENT_ID"))
                   /\ ~HasUnparseable(t, TrailerTimestamps) => ~trailer_report.failed
                   /\ \A i \in 1..Len(trailer_report.rows) :
                          trailer_report.rows[i]["Shipment Num"] # NaN

\* clean_activity_tracker failed on two parseable events, one of order 021
\* and one without order identifier
C30_Witness ==
    /\ pc = "returned"
    /\ activity_tracker.present
    /\ Len(activity_tracker.rows) = 2
    /\ HasColumns(activity_tracker.rows, ActivityColumnsToKeep)
    /\ ~HasUnparseable(activity_tracker.rows, {"Create DateTime"})
    /\ activity_tracker.rows[1]["Order #"] = "021"
    /\ activity_tracker.rows[2]["Order #"] = NaN
    /\ load_times = Failed

====
